---- MODULE Spec2Model ----
(***************************************************************************)
(* ETL cross-runtime contracts (src/server/etl/python/contracts):          *)
(* the pydantic models of models.py, the three validation entry points of  *)
(* validator.py and the three file loaders of loader.py.                   *)
(*                                                                         *)
(* A JSON value is a tagged record.  A Python str is a sequence of         *)
(* non-empty chunks of text: one chunk per character where the characters  *)
(* matter (sha256 digests), one chunk for the whole string elsewhere, so   *)
(* that emptiness and equality are those of the string.  A str that is     *)
(* handed to the JSON parser is a "text" value (see json_loads).           *)
(***************************************************************************)
EXTENDS Integers, Sequences, FiniteSets, TLC

VARIABLES
    kind,      \* message kind of the call in hand: "request" | "result" | "manifest"
    data,      \* the argument the caller has prepared (a JSON value or a text)
    fs,        \* the file system: path -> text of the file, or ABSENT
    op,        \* the call in hand: "none" | "validate" | "load"
    pc,        \* "idle" (the caller prepares data and files) | "exists" | "parse" |
               \* "validate" (inside a loader call) | "done"
    path,      \* file path of the loader call in hand
    loaded,    \* what json.load returned inside the loader
    trace,     \* events of the call in hand, in order
    outcome    \* what the call returned or raised

vars == <<kind, data, fs, op, pc, path, loaded, trace, outcome>>

----------------------------------------------------------------------------
(* JSON values *)

ABSENT == [t |-> "absent"]
NULL == [t |-> "null"]
NaN == [t |-> "nan"]
StrV(s) == [t |-> "str", s |-> s]
\* The str written as one chunk; the empty str has no chunk.
S(c) == StrV(IF c = "" THEN <<>> ELSE <<c>>)
BoolV(b) == [t |-> "bool", b |-> b]
IntV(n) == [t |-> "int", n |-> n]
List(items) == [t |-> "list", items |-> items]
Map(m) == [t |-> "map", m |-> m]
EmptyMap == Map([k \in {} |-> NULL])
\* A str holding the text of a document: syntax says how the text is written.
Text(syntax, doc) == [t |-> "text", syntax |-> syntax, doc |-> doc]

IsStr(v) == v.t \in {"str", "text"}

Get(m, k) == IF k \in DOMAIN m THEN m[k] ELSE ABSENT

Put(m, k, x) ==
    IF x = ABSENT THEN [j \in DOMAIN m \ {k} |-> m[j]]
    ELSE [j \in DOMAIN m \cup {k} |-> IF j = k THEN x ELSE m[j]]

RECURSIVE GetIn(_, _)
GetIn(v, p) ==
    IF p = <<>> THEN v
    ELSE IF v.t # "map" THEN ABSENT
    ELSE GetIn(Get(v.m, Head(p)), Tail(p))

RECURSIVE PutIn(_, _, _)
PutIn(v, p, x) ==
    IF p = <<>> THEN x
    ELSE IF v.t # "map" THEN v
    ELSE IF Len(p) = 1 THEN Map(Put(v.m, Head(p), x))
    ELSE IF Head(p) \notin DOMAIN v.m THEN v
    ELSE Map(Put(v.m, Head(p), PutIn(v.m[Head(p)], Tail(p), x)))

----------------------------------------------------------------------------
(* Field types of the pydantic models *)

StrT(min) == [k |-> "str", min |-> min]
BoolT == [k |-> "bool"]
IntT(ge) == [k |-> "int", ge |-> ge]
LiteralT(vals) == [k |-> "literal", vals |-> vals]
ListT(elem, min) == [k |-> "list", elem |-> elem, min |-> min]
DictT(val) == [k |-> "dict", val |-> val]
AnyT == [k |-> "any"]
ModelT(name) == [k |-> "model", name |-> name]

\* One declared field: internal name, wire alias, type, whether it is
\* Optional[...] = None, and the name of its @field_validator ("" for none).
Fld(name, alias, type, optional, fv) ==
    [name |-> name, alias |-> alias, type |-> type, optional |-> optional, fv |-> fv]

ETLJobStatus == LiteralT({"succeeded", "failed", "partial"})
GeoSource == LiteralT({"mongo", "postgis", "both"})
OutputFormat == LiteralT({"turtle"})
ETLJobSchemaVersion == LiteralT({"etl-job@v1"})
ETLJobResultSchemaVersion == LiteralT({"etl-result@v1"})

ExtensionFlags ==
    << Fld("geo", "geo", BoolT, FALSE, ""),
       Fld("legal", "legal", BoolT, FALSE, ""),
       Fld("web", "web", BoolT, FALSE, "") >>

ETLJobInput ==
    << Fld("document_ids", "documentIds", ListT(StrT(0), 0), TRUE, ""),
       Fld("query", "query", DictT(AnyT), TRUE, ""),
       Fld("include_chunks", "includeChunks", BoolT, FALSE, ""),
       Fld("include_extensions", "includeExtensions", ModelT("ExtensionFlags"), FALSE, ""),
       Fld("geo_source", "geoSource", GeoSource, FALSE, "") >>

ETLJobArtifacts ==
    << Fld("artifact_refs", "artifactRefs", ListT(StrT(0), 0), TRUE, "validate_artifact_refs") >>

ETLJobModels ==
    << Fld("nlp_model_id", "nlpModelId", StrT(1), FALSE, ""),
       Fld("rdf_mapping_version", "rdfMappingVersion", StrT(1), FALSE, "") >>

ETLJobOutput ==
    << Fld("format", "format", OutputFormat, FALSE, ""),
       Fld("output_dir", "outputDir", StrT(1), TRUE, ""),
       Fld("artifact_store_prefix", "artifactStorePrefix", StrT(1), TRUE, ""),
       Fld("manifest_name", "manifestName", StrT(1), FALSE, "") >>

ETLJobRequest ==
    << Fld("schema_version", "schemaVersion", ETLJobSchemaVersion, FALSE, ""),
       Fld("run_id", "runId", StrT(1), FALSE, ""),
       Fld("created_at", "createdAt", StrT(0), FALSE, "validate_created_at"),
       Fld("input", "input", ModelT("ETLJobInput"), FALSE, ""),
       Fld("artifacts", "artifacts", ModelT("ETLJobArtifacts"), TRUE, ""),
       Fld("models", "models", ModelT("ETLJobModels"), FALSE, ""),
       Fld("output", "output", ModelT("ETLJobOutput"), FALSE, "") >>

ETLJobStats ==
    << Fld("documents_processed", "documentsProcessed", IntT(0), FALSE, ""),
       Fld("triples_emitted", "triplesEmitted", IntT(0), FALSE, ""),
       Fld("files_written", "filesWritten", IntT(0), FALSE, "") >>

ETLJobOutputs ==
    << Fld("turtle_files", "turtleFiles", ListT(StrT(0), 1), FALSE, ""),
       Fld("manifest", "manifest", StrT(1), FALSE, "") >>

ETLJobError ==
    << Fld("code", "code", StrT(1), FALSE, ""),
       Fld("message", "message", StrT(1), FALSE, ""),
       Fld("document_id", "documentId", StrT(0), TRUE, ""),
       Fld("context", "context", DictT(AnyT), TRUE, "") >>

ETLJobResult ==
    << Fld("schema_version", "schemaVersion", ETLJobResultSchemaVersion, FALSE, ""),
       Fld("run_id", "runId", StrT(1), FALSE, ""),
       Fld("status", "status", ETLJobStatus, FALSE, ""),
       Fld("stats", "stats", ModelT("ETLJobStats"), FALSE, ""),
       Fld("outputs", "outputs", ModelT("ETLJobOutputs"), FALSE, ""),
       Fld("errors", "errors", ListT(ModelT("ETLJobError"), 0), TRUE, "") >>

DocumentFingerprint ==
    << Fld("document_id", "documentId", StrT(1), FALSE, ""),
       Fld("content_fingerprint", "contentFingerprint", StrT(0), FALSE,
           "validate_content_fingerprint") >>

ManifestProvenance ==
    << Fld("input_fingerprints", "inputFingerprints",
           ListT(ModelT("DocumentFingerprint"), 0), FALSE, ""),
       Fld("parser_versions", "parserVersions", DictT(StrT(0)), FALSE, ""),
       Fld("mapper_versions", "mapperVersions", DictT(StrT(0)), FALSE, ""),
       Fld("model_versions", "modelVersions", DictT(StrT(0)), FALSE, ""),
       Fld("rdf_mapping_version", "rdfMappingVersion", StrT(1), FALSE, "") >>

ETLManifest ==
    << Fld("schema_version", "schemaVersion", StrT(1), FALSE, ""),
       Fld("run_id", "runId", StrT(1), FALSE, ""),
       Fld("created_at", "createdAt", StrT(0), FALSE, "validate_datetime"),
       Fld("completed_at", "completedAt", StrT(0), FALSE, "validate_datetime"),
       Fld("provenance", "provenance", ModelT("ManifestProvenance"), FALSE, ""),
       Fld("outputs", "outputs", DictT(AnyT), FALSE, ""),
       Fld("stats", "stats", ModelT("ETLJobStats"), FALSE, "") >>

ModelFields(name) ==
    CASE name = "ExtensionFlags" -> ExtensionFlags
      [] name = "ETLJobInput" -> ETLJobInput
      [] name = "ETLJobArtifacts" -> ETLJobArtifacts
      [] name = "ETLJobModels" -> ETLJobModels
      [] name = "ETLJobOutput" -> ETLJobOutput
      [] name = "ETLJobRequest" -> ETLJobRequest
      [] name = "ETLJobStats" -> ETLJobStats
      [] name = "ETLJobOutputs" -> ETLJobOutputs
      [] name = "ETLJobError" -> ETLJobError
      [] name = "ETLJobResult" -> ETLJobResult
      [] name = "DocumentFingerprint" -> DocumentFingerprint
      [] name = "ManifestProvenance" -> ManifestProvenance
      [] name = "ETLManifest" -> ETLManifest

----------------------------------------------------------------------------
(* The validators attached to the models *)

HexLen == 64

\* [a-f0-9] under re.IGNORECASE
IsHexChar(c) ==
    c \in {"0", "1", "2", "3", "4", "5", "6", "7", "8", "9",
           "a", "b", "c", "d", "e", "f", "A", "B", "C", "D", "E", "F"}

\* re.match(r'^[a-f0-9]{64}$', s, re.IGNORECASE) on a str of one-character
\* chunks: 64 characters of the class from the start, then `$`, which
\* matches at the end of the string and also just before a line feed that
\* ends the string.
ReMatchSha256(s) ==
    /\ Len(s) >= HexLen
    /\ \A i \in 1..HexLen : IsHexChar(s[i])
    /\ \/ Len(s) = HexLen
       \/ Len(s) = HexLen + 1 /\ s[HexLen + 1] = "\n"

\* v.replace('Z', '+00:00')
ReplaceZ(s) == [i \in 1..Len(s) |-> IF s[i] = "Z" THEN "+00:00" ELSE s[i]]

IsoDateTimes == {"2024-01-01T00:00:00", "2024-01-01T00:05:00"}
IsoOffsets == {"+00:00", "+02:00"}

\* datetime.fromisoformat(s) returns (TRUE) or raises ValueError (FALSE), on a
\* str written as a date-time chunk followed by at most one offset chunk.
FromIsoFormat(s) ==
    /\ Len(s) \in {1, 2}
    /\ s[1] \in IsoDateTimes
    /\ Len(s) = 2 => s[2] \in IsoOffsets

NoRaise == [raises |-> FALSE, ctx |-> NULL]
Raise(ctx) == [raises |-> TRUE, ctx |-> ctx]

\* ETLJobArtifacts.validate_artifact_refs: the loop raises at the first ref
\* that does not match, and the message names that ref.
validate_artifact_refs(v) ==
    IF v = NULL THEN NoRaise
    ELSE LET bad == {i \in 1..Len(v.items) : ~ReMatchSha256(v.items[i].s)}
         IN IF bad = {} THEN NoRaise
            ELSE Raise(v.items[CHOOSE i \in bad : \A j \in bad : i <= j])

\* DocumentFingerprint.validate_content_fingerprint
validate_content_fingerprint(v) ==
    IF ReMatchSha256(v.s) THEN NoRaise ELSE Raise(v)

\* ETLJobRequest.validate_created_at
validate_created_at(v) ==
    IF FromIsoFormat(ReplaceZ(v.s)) THEN NoRaise ELSE Raise(v)

\* ETLManifest.validate_datetime
validate_datetime(v) ==
    IF FromIsoFormat(ReplaceZ(v.s)) THEN NoRaise ELSE Raise(v)

FieldValidator(fv, v) ==
    CASE fv = "validate_artifact_refs" -> validate_artifact_refs(v)
      [] fv = "validate_content_fingerprint" -> validate_content_fingerprint(v)
      [] fv = "validate_created_at" -> validate_created_at(v)
      [] fv = "validate_datetime" -> validate_datetime(v)
      [] OTHER -> NoRaise

\* Python's bool(x) of a validated value
Truthy(v) ==
    CASE v.t = "null" -> FALSE
      [] v.t = "bool" -> v.b
      [] v.t = "list" -> Len(v.items) > 0
      [] v.t = "map" -> DOMAIN v.m # {}
      [] OTHER -> TRUE

\* Python's `x and y`: x when x is falsy, else y
PyAnd(x, y) == IF Truthy(x) THEN y ELSE x

\* ETLJobInput.validate_input_source: TRUE when it raises
validate_input_source(self) ==
    LET has_document_ids ==
            PyAnd(self["document_ids"], BoolV(Len(self["document_ids"].items) > 0))
        has_query ==
            PyAnd(self["query"], BoolV(Cardinality(DOMAIN self["query"].m) > 0))
    IN has_document_ids = has_query

\* validate_output_destination with `not (a or b)` for the XOR: both
\* destinations at once pass.
validate_output_destination_neither_only(self) ==
    self["output_dir"] = NULL /\ self["artifact_store_prefix"] = NULL

\* ETLJobOutput.validate_output_destination: TRUE when it raises
validate_output_destination(self) ==
    LET has_output_dir == self["output_dir"] # NULL
        has_prefix == self["artifact_store_prefix"] # NULL
    IN has_output_dir = has_prefix

\* The @model_validator(mode='after') of a model: TRUE when it raises
ModelValidator(name, self) ==
    CASE name = "ETLJobInput" -> validate_input_source(self)
      [] name = "ETLJobOutput" -> validate_output_destination(self)
      [] OTHER -> FALSE

----------------------------------------------------------------------------
(* BaseModel.model_validate *)

\* One entry of ValidationError.errors(): the field path, the error kind
\* and, for an error raised by a validator of models.py, the value its
\* message names.
Error(loc, type, ctx) == [loc |-> loc, type |-> type, ctx |-> ctx]

Ok(val) == [errs |-> {}, val |-> val]
Fail(loc, type, ctx) == [errs |-> {Error(loc, type, ctx)}, val |-> NULL]

IdxName == <<"0", "1", "2", "3", "4", "5">>

\* populate_by_name: the wire alias is looked up first, then the field name.
Lookup(m, f) ==
    IF f.alias \in DOMAIN m THEN m[f.alias] ELSE Get(m, f.name)

\* AfterValidator with the model validator run whatever the fields gave
\* (as a mode='before' or 'wrap' validator would be).
AfterValidatorAlways(name, loc, errs, self) ==
    LET all == errs \cup (IF ModelValidator(name, self)
                          THEN {Error(loc, "value_error", NULL)} ELSE {})
    IN IF all # {} THEN [errs |-> all, val |-> NULL]
       ELSE Ok([t |-> "model", name |-> name, f |-> self])

\* The end of a model's validation: its @model_validator(mode='after') runs
\* on the model once every field has been accepted, and not otherwise.
AfterValidator(name, loc, errs, self) ==
    IF errs # {} THEN [errs |-> errs, val |-> NULL]
    ELSE IF ModelValidator(name, self) THEN Fail(loc, "value_error", NULL)
    ELSE Ok([t |-> "model", name |-> name, f |-> self])

RECURSIVE Validate(_, _, _)
RECURSIVE ValidateField(_, _, _)

\* One field of a model: a default for an absent Optional field, the type,
\* then the field validator (mode 'after': only when the type was accepted).
ValidateField(f, raw, loc) ==
    IF raw = ABSENT
    THEN IF f.optional THEN Ok(NULL) ELSE Fail(loc, "missing", NULL)
    ELSE LET r == IF f.optional /\ raw = NULL THEN Ok(NULL)
                  ELSE Validate(f.type, raw, loc)
         IN IF r.errs # {} THEN r
            ELSE LET fv == FieldValidator(f.fv, r.val)
                 IN IF fv.raises THEN Fail(loc, "value_error", fv.ctx) ELSE r

Validate(type, v, loc) ==
    CASE type.k = "any" -> Ok(v)
      [] type.k = "str" ->
            IF ~IsStr(v) THEN Fail(loc, "string_type", NULL)
            ELSE IF v.t = "str" /\ Len(v.s) < type.min THEN Fail(loc, "string_too_short", NULL)
            ELSE Ok(v)
      [] type.k = "bool" ->
            IF v.t = "bool" THEN Ok(v)
            ELSE IF v.t = "int" /\ v.n \in {0, 1} THEN Ok(BoolV(v.n = 1))
            ELSE Fail(loc, "bool_type", NULL)
      [] type.k = "int" ->
            IF v.t # "int" THEN Fail(loc, "int_type", NULL)
            ELSE IF v.n < type.ge THEN Fail(loc, "greater_than_equal", NULL)
            ELSE Ok(v)
      [] type.k = "literal" ->
            IF v.t = "str" /\ Len(v.s) = 1 /\ v.s[1] \in type.vals THEN Ok(v)
            ELSE Fail(loc, "literal_error", NULL)
      [] type.k = "list" ->
            IF v.t # "list" THEN Fail(loc, "list_type", NULL)
            ELSE LET r == [i \in 1..Len(v.items) |->
                              Validate(type.elem, v.items[i], loc \o <<IdxName[i]>>)]
                     errs == UNION {r[i].errs : i \in 1..Len(v.items)}
                 IN IF errs # {} THEN [errs |-> errs, val |-> NULL]
                    ELSE IF Len(v.items) < type.min THEN Fail(loc, "too_short", NULL)
                    ELSE Ok(List([i \in 1..Len(v.items) |-> r[i].val]))
      [] type.k = "dict" ->
            IF v.t # "map" THEN Fail(loc, "dict_type", NULL)
            ELSE LET r == [key \in DOMAIN v.m |->
                              Validate(type.val, v.m[key], loc \o <<key>>)]
                     errs == UNION {r[key].errs : key \in DOMAIN v.m}
                 IN IF errs # {} THEN [errs |-> errs, val |-> NULL]
                    ELSE Ok(Map([key \in DOMAIN v.m |-> r[key].val]))
      [] type.k = "model" ->
            IF v.t # "map" THEN Fail(loc, "model_type", NULL)
            ELSE LET fields == ModelFields(type.name)
                     r == [i \in 1..Len(fields) |->
                              ValidateField(fields[i], Lookup(v.m, fields[i]),
                                            loc \o <<fields[i].alias>>)]
                     errs == UNION {r[i].errs : i \in 1..Len(fields)}
                     self == [n \in {fields[i].name : i \in 1..Len(fields)} |->
                                 r[CHOOSE i \in 1..Len(fields) : fields[i].name = n].val]
                 IN AfterValidator(type.name, loc, errs, self)

model_validate(name, value) == Validate(ModelT(name), value, <<>>)

----------------------------------------------------------------------------
(* json.loads / json.load *)

RECURSIVE HasNaN(_)
\* Whether a document holds a NaN (written NaN, a literal RFC 8259 does not have)
HasNaN(v) ==
    CASE v.t = "nan" -> TRUE
      [] v.t = "list" -> \E i \in 1..Len(v.items) : HasNaN(v.items[i])
      [] v.t = "map" -> \E key \in DOMAIN v.m : HasNaN(v.m[key])
      [] OTHER -> FALSE

\* The text is a JSON document in the sense of RFC 8259.
IsValidJSON(text) ==
    text.t = "text" /\ text.syntax = "document" /\ ~HasNaN(text.doc)

\* json.loads(text): the document, or JSONDecodeError with the parser's msg.
\* A text is the serialisation of a document ("document"), that serialisation
\* cut short before its closing delimiter ("truncated"), or `{not valid`
\* ("garbage").  Python's parser also reads the literal NaN, as a float.
\* A str that is not such a text is one of the model's plain strings, none of
\* which is JSON.
json_loads(text) ==
    IF text.t # "text"
    THEN [ok |-> FALSE, value |-> NULL, msg |-> "Expecting value"]
    ELSE CASE text.syntax = "document" -> [ok |-> TRUE, value |-> text.doc, msg |-> ""]
           [] text.syntax = "truncated" ->
                [ok |-> FALSE, value |-> NULL, msg |-> "Expecting ',' delimiter"]
           [] OTHER ->
                [ok |-> FALSE, value |-> NULL,
                 msg |-> "Expecting property name enclosed in double quotes"]

----------------------------------------------------------------------------
(* validator.py *)

Pending == [kind |-> "pending", value |-> NULL, message |-> "", detail |-> "",
            errors |-> {}, schema_version |-> NULL]

Returned(value) == [Pending EXCEPT !.kind = "returned", !.value = value]

\* ETLContractValidationError(message, errors, schema_version)
ETLContractValidationError(message, detail, errors, schema_version) ==
    [kind |-> "ETLContractValidationError", value |-> NULL, message |-> message,
     detail |-> detail, errors |-> errors, schema_version |-> schema_version]

\* data.get('schemaVersion') if isinstance(data, dict) else None
ObservedSchemaVersion(d) ==
    IF d.t = "map" /\ "schemaVersion" \in DOMAIN d.m THEN d.m["schemaVersion"] ELSE NULL

\* ValidateWith passing on only one of the sub-errors (e.errors()[:1]).
ValidateWithFirstError(model, message, d) ==
    LET parsed == IF IsStr(d) THEN json_loads(d)
                  ELSE [ok |-> TRUE, value |-> d, msg |-> ""]
    IN IF ~parsed.ok
       THEN ETLContractValidationError("Invalid JSON", parsed.msg, {}, NULL)
       ELSE LET r == model_validate(model, parsed.value)
            IN IF r.errs = {} THEN Returned(r.val)
               ELSE ETLContractValidationError(message, "", {CHOOSE e \in r.errs : TRUE},
                                               ObservedSchemaVersion(parsed.value))

\* The body shared by the three entry points: model and message differ.
ValidateWith(model, message, d) ==
    LET parsed == IF IsStr(d) THEN json_loads(d)
                  ELSE [ok |-> TRUE, value |-> d, msg |-> ""]
    IN IF ~parsed.ok
       THEN ETLContractValidationError("Invalid JSON", parsed.msg, {}, NULL)
       ELSE LET r == model_validate(model, parsed.value)
            IN IF r.errs = {} THEN Returned(r.val)
               ELSE ETLContractValidationError(message, "", r.errs,
                                               ObservedSchemaVersion(parsed.value))

validate_etl_job_request(d) ==
    ValidateWith("ETLJobRequest", "ETL job request validation failed", d)

validate_etl_job_result(d) ==
    ValidateWith("ETLJobResult", "ETL job result validation failed", d)

validate_etl_manifest(d) ==
    ValidateWith("ETLManifest", "ETL manifest validation failed", d)

EntryPoint(k, d) ==
    CASE k = "request" -> validate_etl_job_request(d)
      [] k = "result" -> validate_etl_job_result(d)
      [] k = "manifest" -> validate_etl_manifest(d)

----------------------------------------------------------------------------
(* The payloads the callers prepare *)

MaxDeviations == 2
MaxRefs == 2

Rep(c, n) == [i \in 1..n |-> c]
GoodDigest == StrV(Rep("a", HexLen))
BadDigest == StrV(Rep("a", HexLen - 1))
OtherBadDigest == StrV(Rep("g", HexLen))

\* The request of the specification's scenario
BaseRequest ==
    Map([schemaVersion |-> S("etl-job@v1"),
         runId |-> S("r1"),
         createdAt |-> StrV(<<"2024-01-01T00:00:00", "Z">>),
         input |-> Map([documentIds |-> List(<<S("d1")>>),
                        includeChunks |-> BoolV(TRUE),
                        includeExtensions |-> Map([geo |-> BoolV(FALSE),
                                                   legal |-> BoolV(FALSE),
                                                   web |-> BoolV(FALSE)]),
                        geoSource |-> S("mongo")]),
         models |-> Map([nlpModelId |-> S("m1"), rdfMappingVersion |-> S("v1")]),
         output |-> Map([format |-> S("turtle"),
                         manifestName |-> S("man1"),
                         outputDir |-> S("/tmp/out")])])

BaseResult ==
    Map([schemaVersion |-> S("etl-result@v1"),
         runId |-> S("r1"),
         status |-> S("succeeded"),
         stats |-> Map([documentsProcessed |-> IntV(1),
                        triplesEmitted |-> IntV(3),
                        filesWritten |-> IntV(0)]),
         outputs |-> Map([turtleFiles |-> List(<<S("out.ttl")>>),
                          manifest |-> S("man1")])])

Fingerprint(digest) == Map([documentId |-> S("d1"), contentFingerprint |-> digest])

BaseManifest ==
    Map([schemaVersion |-> S("etl-manifest@v1"),
         runId |-> S("r1"),
         createdAt |-> StrV(<<"2024-01-01T00:00:00", "Z">>),
         completedAt |-> StrV(<<"2024-01-01T00:05:00", "Z">>),
         provenance |-> Map([inputFingerprints |-> List(<<Fingerprint(GoodDigest)>>),
                             parserVersions |-> Map([pdf |-> S("1.0")]),
                             mapperVersions |-> EmptyMap,
                             modelVersions |-> EmptyMap,
                             rdfMappingVersion |-> S("v1")]),
         outputs |-> Map([turtleFiles |-> List(<<S("out.ttl")>>),
                          manifest |-> S("man1")]),
         stats |-> Map([documentsProcessed |-> IntV(1),
                        triplesEmitted |-> IntV(3),
                        filesWritten |-> IntV(1)])])

Base(k) ==
    CASE k = "request" -> BaseRequest
      [] k = "result" -> BaseResult
      [] k = "manifest" -> BaseManifest

Kinds == {"request", "result", "manifest"}

RECURSIVE SeqsUpTo(_, _)
\* The sequences over S of length at most n
SeqsUpTo(S_, n) ==
    IF n = 0 THEN {<<>>}
    ELSE LET shorter == SeqsUpTo(S_, n - 1)
         IN shorter \cup {Append(q, x) : q \in shorter, x \in S_}

Alt(p, x) == [path |-> p, value |-> x]

\* What a caller may change in the base payload: a field path and the value
\* put there (ABSENT removes the field).
RequestEdits ==
    {Alt(<<>>, List(<<>>)), Alt(<<>>, NaN),
     Alt(<<"schemaVersion">>, ABSENT), Alt(<<"schemaVersion">>, S("etl-job@v2")),
     Alt(<<"schema_version">>, S("etl-job@v1")), Alt(<<"schema_version">>, S("etl-job@v2")),
     Alt(<<"runId">>, S("")), Alt(<<"runId">>, IntV(5)),
     Alt(<<"createdAt">>, S("yesterday")),
     Alt(<<"input">>, ABSENT),
     Alt(<<"input", "documentIds">>, ABSENT), Alt(<<"input", "documentIds">>, NULL),
     Alt(<<"input", "documentIds">>, List(<<>>)), Alt(<<"input", "documentIds">>, S("d1")),
     Alt(<<"input", "query">>, NULL), Alt(<<"input", "query">>, EmptyMap),
     Alt(<<"input", "query">>, Map([x |-> IntV(1)])),
     Alt(<<"input", "includeChunks">>, ABSENT), Alt(<<"input", "includeChunks">>, IntV(5)),
     Alt(<<"input", "includeExtensions", "geo">>, ABSENT),
     Alt(<<"input", "geoSource">>, S("oracle")),
     Alt(<<"models", "nlpModelId">>, S("")),
     Alt(<<"output", "format">>, S("json")),
     Alt(<<"output", "outputDir">>, ABSENT), Alt(<<"output", "outputDir">>, NULL),
     Alt(<<"output", "outputDir">>, S("")),
     Alt(<<"output", "artifactStorePrefix">>, NULL),
     Alt(<<"output", "artifactStorePrefix">>, S("")),
     Alt(<<"output", "artifactStorePrefix">>, S("etl/run1")),
     Alt(<<"output", "manifestName">>, S(""))}
    \cup {Alt(<<"artifacts">>, Map([artifactRefs |-> List(refs)])) :
            refs \in SeqsUpTo({GoodDigest, BadDigest, OtherBadDigest}, MaxRefs)}

ResultEdits ==
    {Alt(<<>>, List(<<>>)),
     Alt(<<"schemaVersion">>, ABSENT), Alt(<<"schemaVersion">>, S("etl-result@v2")),
     Alt(<<"schema_version">>, S("etl-result@v2")),
     Alt(<<"runId">>, S("")),
     Alt(<<"status">>, S("unknown")),
     Alt(<<"stats", "documentsProcessed">>, IntV(-1)),
     Alt(<<"stats", "triplesEmitted">>, IntV(-1)), Alt(<<"stats", "triplesEmitted">>, IntV(0)),
     Alt(<<"stats", "filesWritten">>, S("many")),
     Alt(<<"outputs", "turtleFiles">>, List(<<>>)),
     Alt(<<"outputs", "turtleFiles">>, List(<<IntV(1), IntV(2)>>)),
     Alt(<<"outputs", "manifest">>, S("")),
     Alt(<<"errors">>, NULL),
     Alt(<<"errors">>, List(<<Map([code |-> S(""), message |-> S("")])>>)),
     Alt(<<"errors">>, List(<<Map([code |-> S("E1"), message |-> S("boom")])>>))}

ManifestEdits ==
    {Alt(<<>>, List(<<>>)),
     Alt(<<"schemaVersion">>, ABSENT), Alt(<<"schemaVersion">>, S("")),
     Alt(<<"schemaVersion">>, IntV(2)),
     Alt(<<"schema_version">>, S("etl-manifest@v2")),
     Alt(<<"createdAt">>, S("yesterday")),
     Alt(<<"completedAt">>, StrV(<<"2024-01-01T00:05:00", "+02:00">>)),
     Alt(<<"completedAt">>, StrV(<<"2024-01-01T00:05:00", "UTC">>)),
     Alt(<<"provenance", "parserVersions">>, Map([pdf |-> IntV(1), html |-> IntV(2)])),
     Alt(<<"provenance", "rdfMappingVersion">>, S("")),
     Alt(<<"outputs">>, EmptyMap), Alt(<<"outputs">>, List(<<>>)),
     Alt(<<"stats", "filesWritten">>, IntV(-1))}
    \cup {Alt(<<"provenance", "inputFingerprints">>,
              List([i \in 1..Len(ds) |-> Fingerprint(ds[i])])) :
            ds \in SeqsUpTo({GoodDigest, BadDigest}, MaxRefs)}

Edits(k) ==
    CASE k = "request" -> RequestEdits
      [] k = "result" -> ResultEdits
      [] k = "manifest" -> ManifestEdits

EditPaths(k) == {e.path : e \in Edits(k)}

Front(p) == SubSeq(p, 1, Len(p) - 1)

\* The fields of payload d that differ from the base payload; a sub-record
\* that is gone counts once, not once per field of it.
Deviations(k, d) ==
    {p \in EditPaths(k) :
        LET b == GetIn(Base(k), p)
            x == GetIn(d, p)
        IN IF p = <<>> THEN x.t # "map"
           ELSE /\ GetIn(d, Front(p)).t = "map"
                /\ IF b.t = "map" THEN x.t # "map" ELSE x # b}

----------------------------------------------------------------------------
(* Calls of the validation entry points on prepared data *)

Init ==
    /\ kind = "request"
    /\ data = BaseRequest
    /\ fs = <<>>
    /\ op = "none"
    /\ pc = "idle"
    /\ path = ""
    /\ loaded = NULL
    /\ trace = <<>>
    /\ outcome = Pending

\* The caller starts over with the base payload of some kind.
Prepare(k) ==
    /\ pc \in {"idle", "done"}
    /\ kind' = k
    /\ data' = Base(k)
    /\ op' = "none"
    /\ pc' = "idle"
    /\ outcome' = Pending
    /\ UNCHANGED <<fs, path, loaded, trace>>

\* The caller changes one field of the payload.
Edit(e) ==
    /\ pc = "idle"
    /\ e \in Edits(kind)
    /\ LET d == PutIn(data, e.path, e.value)
       IN /\ d # data
          /\ Cardinality(Deviations(kind, d)) <= MaxDeviations
          /\ data' = d
    /\ UNCHANGED <<kind, fs, op, pc, path, loaded, trace, outcome>>

\* A call of the entry point of the payload's kind, as a whole.
Validate_(k) ==
    /\ pc = "idle"
    /\ kind = k
    /\ op' = "validate"
    /\ pc' = "done"
    /\ outcome' = EntryPoint(k, data)
    /\ UNCHANGED <<kind, data, fs, path, loaded, trace>>

CallValidateRequest == Validate_("request")
CallValidateResult == Validate_("result")
CallValidateManifest == Validate_("manifest")

Next ==
    \/ \E k \in Kinds : Prepare(k)
    \/ \E e \in RequestEdits \cup ResultEdits \cup ManifestEdits : Edit(e)
    \/ CallValidateRequest
    \/ CallValidateResult
    \/ CallValidateManifest

Spec == Init /\ [][Next]_vars

----------------------------------------------------------------------------
(* loader.py: files, and the loaders step by step *)

MaxNesting == 1

Paths == {"job.json", "missing.json"}

\* The documents written to files or handed to the entry points as text
Documents ==
    {BaseRequest,
     PutIn(BaseRequest, <<"schemaVersion">>, S("etl-job@v2")),
     PutIn(BaseRequest, <<"note">>, NaN),
     BaseResult,
     PutIn(BaseResult, <<"stats", "filesWritten">>, IntV(-1)),
     BaseManifest,
     List(<<>>), NaN, S("hello")}

RECURSIVE Texts(_)
\* Texts(0) are the documents as written, cut short, or not JSON at all;
\* Texts(n + 1) has also the JSON string literals whose content is a text
\* of Texts(n) (a document encoded twice).
Texts(n) ==
    IF n = 0
    THEN {Text("document", d) : d \in Documents}
         \cup {Text("truncated", d) : d \in {x \in Documents : x.t \in {"map", "list"}}}
         \cup {Text("garbage", NULL)}
    ELSE Texts(n - 1) \cup {Text("document", x) : x \in Texts(n - 1)}

FileTexts == Texts(MaxNesting)

\* Path(file_path).exists()
Exists(p) == p \in DOMAIN fs

FileNotFoundError == [Pending EXCEPT !.kind = "FileNotFoundError"]
JSONDecodeError(msg) == [Pending EXCEPT !.kind = "JSONDecodeError", !.detail = msg]

\* The caller of a loader: load_etl_job_request, load_etl_job_result or
\* load_etl_manifest (by kind) is entered with file_path p.
LoadStart(k, p) ==
    /\ pc = "idle"
    /\ kind' = k
    /\ path' = p
    /\ op' = "load"
    /\ pc' = "exists"
    /\ loaded' = NULL
    /\ trace' = <<>>
    /\ outcome' = Pending
    /\ UNCHANGED <<data, fs>>

\* LoadExists with the file opened before the check.
LoadExistsAfterOpen ==
    /\ pc = "exists"
    /\ trace' = trace \o <<"exists", "open">>
    /\ IF Exists(path)
       THEN pc' = "parse" /\ UNCHANGED outcome
       ELSE pc' = "done" /\ outcome' = FileNotFoundError
    /\ UNCHANGED <<kind, data, fs, op, path, loaded>>

\* if not path.exists(): raise FileNotFoundError
LoadExists ==
    /\ pc = "exists"
    /\ trace' = trace \o <<"exists">>
    /\ IF Exists(path)
       THEN pc' = "parse" /\ UNCHANGED outcome
       ELSE pc' = "done" /\ outcome' = FileNotFoundError
    /\ UNCHANGED <<kind, data, fs, op, path, loaded>>

\* LoadParse turning the parser's error into the contract error, as the
\* entry points do.
LoadParseWrapped ==
    /\ pc = "parse"
    /\ trace' = trace \o <<"open", "read", "parse">>
    /\ LET r == json_loads(fs[path])
       IN IF r.ok
          THEN loaded' = r.value /\ pc' = "validate" /\ UNCHANGED outcome
          ELSE /\ outcome' = ETLContractValidationError("Invalid JSON", r.msg, {}, NULL)
               /\ pc' = "done"
               /\ UNCHANGED loaded
    /\ UNCHANGED <<kind, data, fs, op, path>>

\* with open(path, 'r', encoding='utf-8') as f: data = json.load(f)
\* A JSONDecodeError leaves the loader as it is.
LoadParse ==
    /\ pc = "parse"
    /\ trace' = trace \o <<"open", "read", "parse">>
    /\ LET r == json_loads(fs[path])
       IN IF r.ok
          THEN loaded' = r.value /\ pc' = "validate" /\ UNCHANGED outcome
          ELSE outcome' = JSONDecodeError(r.msg) /\ pc' = "done" /\ UNCHANGED loaded
    /\ UNCHANGED <<kind, data, fs, op, path>>

\* return validate_etl_job_request(data), and likewise for the other kinds
LoadValidate ==
    /\ pc = "validate"
    /\ trace' = trace \o <<"validate">>
    /\ outcome' = EntryPoint(kind, loaded)
    /\ pc' = "done"
    /\ UNCHANGED <<kind, data, fs, op, path, loaded>>

\* An entry point called on a text.
ValidateText(k, text) ==
    /\ pc = "idle"
    /\ kind' = k
    /\ data' = text
    /\ op' = "validate"
    /\ pc' = "done"
    /\ outcome' = EntryPoint(k, text)
    /\ UNCHANGED <<fs, path, loaded, trace>>

\* The call in hand has ended and its values are dropped: nothing is kept
\* from one call to the next but the files.
Return ==
    /\ pc = "done"
    /\ pc' = "idle"
    /\ op' = "none"
    /\ kind' = "request"
    /\ data' = BaseRequest
    /\ path' = ""
    /\ loaded' = NULL
    /\ trace' = <<>>
    /\ outcome' = Pending
    /\ UNCHANGED fs

\* Between calls, files are written and removed.
WriteFile(p, text) ==
    /\ pc = "idle"
    /\ p # "missing.json"
    /\ fs' = [q \in DOMAIN fs \cup {p} |-> IF q = p THEN text ELSE fs[q]]
    /\ UNCHANGED <<kind, data, op, pc, path, loaded, trace, outcome>>

DeleteFile(p) ==
    /\ pc = "idle"
    /\ Exists(p)
    /\ fs' = [q \in DOMAIN fs \ {p} |-> fs[q]]
    /\ UNCHANGED <<kind, data, op, pc, path, loaded, trace, outcome>>

NextLoader ==
    \/ \E p \in Paths, text \in FileTexts : WriteFile(p, text)
    \/ \E p \in Paths : DeleteFile(p)
    \/ \E k \in Kinds, p \in Paths : LoadStart(k, p)
    \/ LoadExists
    \/ LoadParse
    \/ LoadValidate
    \/ \E k \in Kinds, text \in FileTexts : ValidateText(k, text)
    \/ Return

SpecLoader == Init /\ [][NextLoader]_vars

----------------------------------------------------------------------------
(* Digest strings handed to the two digest fields *)

MaxTail == 2

\* Strings of one-character chunks around the 64-character mark: a run of
\* one character, possibly with one character of it replaced, and a tail.
DigestStrings ==
    LET runs == {Rep(c, n) : c \in {"a", "F", "7"}, n \in {HexLen - 1, HexLen}}
        heads == runs \cup {[r EXCEPT ![2] = "g"] : r \in runs} \cup {<<>>}
        tails == SeqsUpTo({"\n", "g", "b"}, MaxTail)
    IN {StrV(h \o tl) : h \in heads, tl \in tails}

\* The payload of kind k (a request or a manifest) whose digest field holds
\* s, after `before` good digests.
WithDigest(k, before, s) ==
    IF k = "request"
    THEN PutIn(BaseRequest, <<"artifacts">>,
               Map([artifactRefs |-> List(Rep(GoodDigest, before) \o <<s>>)]))
    ELSE PutIn(BaseManifest, <<"provenance", "inputFingerprints">>,
               List(Rep(Fingerprint(GoodDigest), before) \o <<Fingerprint(s)>>))

\* The caller prepares a payload around the digest s.
PrepareDigest(k, before, s) ==
    /\ pc \in {"idle", "done"}
    /\ kind' = k
    /\ data' = WithDigest(k, before, s)
    /\ op' = "none"
    /\ pc' = "idle"
    /\ outcome' = Pending
    /\ UNCHANGED <<fs, path, loaded, trace>>

NextDigest ==
    \/ \E k \in {"request", "manifest"}, before \in {0, 1}, s \in DigestStrings :
          PrepareDigest(k, before, s)
    \/ CallValidateRequest
    \/ CallValidateManifest

SpecDigest == Init /\ [][NextDigest]_vars

----------------------------------------------------------------------------
(* What the properties below speak of *)

\* A call of the entry point of kind k has ended.
Validated(k) == pc = "done" /\ op = "validate" /\ kind = k

Accepted == outcome.kind = "returned"

\* The two error kinds of the specification's taxonomy
ContractViolation ==
    outcome.kind = "ETLContractValidationError" /\ outcome.message # "Invalid JSON"
MalformedInput ==
    outcome.kind = "ETLContractValidationError" /\ outcome.message = "Invalid JSON"

ErrorLocs == {e.loc : e \in outcome.errors}

IsPrefix(p, q) == Len(p) <= Len(q) /\ SubSeq(q, 1, Len(p)) = p

\* "Is present and non-empty", of a selector as written in the payload
PresentNonEmpty(v) ==
    \/ v.t = "list" /\ Len(v.items) > 0
    \/ v.t = "map" /\ DOMAIN v.m # {}
    \/ v.t = "str" /\ Len(v.s) > 0

DocumentIdsIn(d) == GetIn(d, <<"input", "documentIds">>)
QueryIn(d) == GetIn(d, <<"input", "query">>)
OutputDirIn(d) == GetIn(d, <<"output", "outputDir">>)
PrefixIn(d) == GetIn(d, <<"output", "artifactStorePrefix">>)

----------------------------------------------------------------------------
(* C1 *)

\* A request whose fields other than the two selectors are those of the base
\* request, and whose documentIds is absent, null or a list.
SelectorsOnly ==
    /\ Deviations("request", data) \subseteq {<<"input", "documentIds">>, <<"input", "query">>}
    /\ DocumentIdsIn(data).t \in {"absent", "null", "list"}

\* C1: a request that is otherwise valid is rejected with a contract
\* violation located on `input` whenever documentIds and query are both
\* present and non-empty or both not (absent, null or empty), and accepted
\* when exactly one is present and non-empty and the other is absent.
C1_SelectorXor ==
    (Validated("request") /\ SelectorsOnly) =>
        LET hasIds == PresentNonEmpty(DocumentIdsIn(data))
            hasQuery == PresentNonEmpty(QueryIn(data))
        IN /\ (hasIds = hasQuery) => (ContractViolation /\ <<"input">> \in ErrorLocs)
           /\ (hasIds /\ QueryIn(data) = ABSENT) => Accepted
           /\ (hasQuery /\ DocumentIdsIn(data) = ABSENT) => Accepted

----------------------------------------------------------------------------
(* C9 *)

\* C9: in an accepted request, documentIds, when the validated value has it,
\* is a non-empty list and query, when it has it, is a non-empty mapping.
C9_NoEmptySelector ==
    (Validated("request") /\ Accepted) =>
        LET input == outcome.value.f["input"].f
        IN /\ input["document_ids"] # NULL => Len(input["document_ids"].items) > 0
           /\ input["query"] # NULL => DOMAIN input["query"].m # {}

----------------------------------------------------------------------------
(* C2 *)

\* A request whose fields other than the two destinations are those of the
\* base request.
DestinationsOnly ==
    Deviations("request", data)
        \subseteq {<<"output", "outputDir">>, <<"output", "artifactStorePrefix">>}

IsNonEmptyStr(v) == v.t = "str" /\ Len(v.s) > 0
AbsentOrNull(v) == v.t \in {"absent", "null"}

\* C2: a request that is otherwise valid is accepted exactly when one of
\* outputDir and artifactStorePrefix is a non-empty string and the other is
\* absent or null; otherwise it is rejected with a contract violation under
\* the `output` path.  No accepted request has both destinations or neither.
C2_DestinationXor ==
    /\ (Validated("request") /\ DestinationsOnly) =>
          LET dir == OutputDirIn(data)
              prefix == PrefixIn(data)
              one == \/ IsNonEmptyStr(dir) /\ AbsentOrNull(prefix)
                     \/ IsNonEmptyStr(prefix) /\ AbsentOrNull(dir)
          IN /\ Accepted <=> one
             /\ ~one => /\ ContractViolation
                        /\ ErrorLocs # {}
                        /\ \A loc \in ErrorLocs : IsPrefix(<<"output">>, loc)
    /\ (Validated("request") /\ Accepted) =>
          LET output == outcome.value.f["output"].f
          IN (output["output_dir"] = NULL) # (output["artifact_store_prefix"] = NULL)

\* A request with both destinations has been rejected, and so has one with
\* neither, and one with a single destination has been accepted.
C2_Witness ==
    /\ Validated("request") /\ DestinationsOnly
    /\ IsNonEmptyStr(OutputDirIn(data)) /\ IsNonEmptyStr(PrefixIn(data))
    /\ ContractViolation /\ ErrorLocs = {<<"output">>}

----------------------------------------------------------------------------
(* The rules of the data model, stated on the payload as written *)

When(cond, loc) == IF cond THEN {loc} ELSE {}

\* The value the schema reads for the schema version: the wire name first.
SchemaVersionIn(d) ==
    IF "schemaVersion" \in DOMAIN d.m THEN d.m["schemaVersion"] ELSE Get(d.m, "schema_version")

IsSha256Hex(v) == v.t = "str" /\ Len(v.s) = HexLen /\ \A i \in 1..HexLen : IsHexChar(v.s[i])

IsIsoDateTime(v) ==
    /\ v.t = "str" /\ Len(v.s) \in {1, 2}
    /\ v.s[1] \in IsoDateTimes
    /\ Len(v.s) = 2 => v.s[2] \in IsoOffsets \cup {"Z"}

IsCount(v) == v.t = "int" /\ v.n >= 0

OptionalStr(v, min) == AbsentOrNull(v) \/ (v.t = "str" /\ Len(v.s) >= min)

StatsViolations(st, loc) ==
    IF st.t # "map" THEN {loc}
    ELSE UNION {When(~IsCount(Get(st.m, key)), loc \o <<key>>) :
                   key \in {"documentsProcessed", "triplesEmitted", "filesWritten"}}

\* The fields of a request that break a rule of their own (presence, type,
\* length, literal, format), by path.
RequestFieldViolations(d) ==
    IF d.t # "map" THEN {<<>>}
    ELSE LET input == Get(d.m, "input")
             artifacts == Get(d.m, "artifacts")
             models == Get(d.m, "models")
             output == Get(d.m, "output")
         IN When(SchemaVersionIn(d) # S("etl-job@v1"), <<"schemaVersion">>)
            \cup When(~IsNonEmptyStr(Get(d.m, "runId")), <<"runId">>)
            \cup When(~IsIsoDateTime(Get(d.m, "createdAt")), <<"createdAt">>)
            \cup (IF input.t # "map" THEN {<<"input">>}
                  ELSE LET ids == Get(input.m, "documentIds")
                           ext == Get(input.m, "includeExtensions")
                       IN When(~(AbsentOrNull(ids) \/ ids.t = "list"), <<"input", "documentIds">>)
                          \cup When(~(AbsentOrNull(Get(input.m, "query"))
                                      \/ Get(input.m, "query").t = "map"), <<"input", "query">>)
                          \cup When(Get(input.m, "includeChunks").t # "bool",
                                    <<"input", "includeChunks">>)
                          \cup (IF ext.t # "map" THEN {<<"input", "includeExtensions">>}
                                ELSE UNION {When(Get(ext.m, key).t # "bool",
                                                 <<"input", "includeExtensions", key>>) :
                                               key \in {"geo", "legal", "web"}})
                          \cup When(Get(input.m, "geoSource")
                                       \notin {S("mongo"), S("postgis"), S("both")},
                                    <<"input", "geoSource">>))
            \cup (IF AbsentOrNull(artifacts) THEN {}
                  ELSE IF artifacts.t # "map" THEN {<<"artifacts">>}
                  ELSE LET refs == Get(artifacts.m, "artifactRefs")
                       IN When(~AbsentOrNull(refs)
                               /\ \E i \in 1..Len(refs.items) : ~IsSha256Hex(refs.items[i]),
                               <<"artifacts", "artifactRefs">>))
            \cup (IF models.t # "map" THEN {<<"models">>}
                  ELSE When(~IsNonEmptyStr(Get(models.m, "nlpModelId")),
                            <<"models", "nlpModelId">>)
                       \cup When(~IsNonEmptyStr(Get(models.m, "rdfMappingVersion")),
                                 <<"models", "rdfMappingVersion">>))
            \cup (IF output.t # "map" THEN {<<"output">>}
                  ELSE When(Get(output.m, "format") # S("turtle"), <<"output", "format">>)
                       \cup When(~OptionalStr(Get(output.m, "outputDir"), 1),
                                 <<"output", "outputDir">>)
                       \cup When(~OptionalStr(Get(output.m, "artifactStorePrefix"), 1),
                                 <<"output", "artifactStorePrefix">>)
                       \cup When(~IsNonEmptyStr(Get(output.m, "manifestName")),
                                 <<"output", "manifestName">>))

ResultFieldViolations(d) ==
    IF d.t # "map" THEN {<<>>}
    ELSE LET outputs == Get(d.m, "outputs")
             errors == Get(d.m, "errors")
         IN When(SchemaVersionIn(d) # S("etl-result@v1"), <<"schemaVersion">>)
            \cup When(~IsNonEmptyStr(Get(d.m, "runId")), <<"runId">>)
            \cup When(Get(d.m, "status") \notin {S("succeeded"), S("failed"), S("partial")},
                      <<"status">>)
            \cup StatsViolations(Get(d.m, "stats"), <<"stats">>)
            \cup (IF outputs.t # "map" THEN {<<"outputs">>}
                  ELSE LET files == Get(outputs.m, "turtleFiles")
                       IN (IF files.t # "list" \/ files.items = <<>>
                           THEN {<<"outputs", "turtleFiles">>}
                           ELSE UNION {When(files.items[i].t # "str",
                                            <<"outputs", "turtleFiles", IdxName[i]>>) :
                                          i \in 1..Len(files.items)})
                          \cup When(~IsNonEmptyStr(Get(outputs.m, "manifest")),
                                    <<"outputs", "manifest">>))
            \cup (IF AbsentOrNull(errors) THEN {}
                  ELSE UNION {When(~IsNonEmptyStr(Get(errors.items[i].m, key)),
                                   <<"errors", IdxName[i], key>>) :
                                 i \in 1..Len(errors.items), key \in {"code", "message"}})

ManifestFieldViolations(d) ==
    IF d.t # "map" THEN {<<>>}
    ELSE LET prov == Get(d.m, "provenance")
         IN When(~IsNonEmptyStr(SchemaVersionIn(d)), <<"schemaVersion">>)
            \cup When(~IsNonEmptyStr(Get(d.m, "runId")), <<"runId">>)
            \cup When(~IsIsoDateTime(Get(d.m, "createdAt")), <<"createdAt">>)
            \cup When(~IsIsoDateTime(Get(d.m, "completedAt")), <<"completedAt">>)
            \cup (IF prov.t # "map" THEN {<<"provenance">>}
                  ELSE LET fps == Get(prov.m, "inputFingerprints")
                           versions(name) == Get(prov.m, name)
                       IN UNION {When(~IsSha256Hex(Get(fps.items[i].m, "contentFingerprint")),
                                      <<"provenance", "inputFingerprints", IdxName[i],
                                        "contentFingerprint">>) :
                                    i \in 1..Len(fps.items)}
                          \cup UNION {UNION {When(versions(key).m[c].t # "str",
                                                  <<"provenance", key, c>>) :
                                                c \in DOMAIN versions(key).m} :
                                         key \in {"parserVersions", "mapperVersions",
                                                  "modelVersions"}}
                          \cup When(~IsNonEmptyStr(Get(prov.m, "rdfMappingVersion")),
                                    <<"provenance", "rdfMappingVersion">>))
            \cup When(Get(d.m, "outputs").t # "map", <<"outputs">>)
            \cup StatsViolations(Get(d.m, "stats"), <<"stats">>)

FieldViolations(k, d) ==
    CASE k = "request" -> RequestFieldViolations(d)
      [] k = "result" -> ResultFieldViolations(d)
      [] k = "manifest" -> ManifestFieldViolations(d)

\* The records of a payload that carry a mutual-exclusion pair, with the
\* names of the pair.
MutexRecords(k) ==
    IF k = "request"
    THEN {[loc |-> <<"input">>, a |-> "documentIds", b |-> "query"],
          [loc |-> <<"output">>, a |-> "outputDir", b |-> "artifactStorePrefix"]}
    ELSE {}

\* Record R of payload d gives both members of its pair, or neither, in the
\* specification's sense: "is present and non-empty".
MutexViolated(R, d) ==
    LET rec == GetIn(d, R.loc)
    IN /\ rec.t = "map"
       /\ PresentNonEmpty(Get(rec.m, R.a)) = PresentNonEmpty(Get(rec.m, R.b))

\* The same in the narrower sense of both given and non-empty, or both
\* absent or null.
MutexBothOrNone(R, d) ==
    LET rec == GetIn(d, R.loc)
    IN /\ rec.t = "map"
       /\ \/ PresentNonEmpty(Get(rec.m, R.a)) /\ PresentNonEmpty(Get(rec.m, R.b))
          \/ AbsentOrNull(Get(rec.m, R.a)) /\ AbsentOrNull(Get(rec.m, R.b))

IsProperPrefix(p, q) == Len(p) < Len(q) /\ SubSeq(q, 1, Len(p)) = p

IsMutexError(e) ==
    e.type = "value_error" /\ e.loc \in {R.loc : R \in MutexRecords(kind)}

MutexErrorAt(loc) == \E e \in outcome.errors : e.loc = loc /\ e.type = "value_error"

----------------------------------------------------------------------------
(* C7 *)

\* C7 as stated: a rejected payload's error holds a sub-error for every
\* violation in the payload, the broken field rules and the broken mutual
\* exclusions alike.  Mutual exclusion is taken here in the narrow sense,
\* in which the validators of models.py do raise, so that what refutes the
\* statement is not the empty selectors of C1.
C7_EveryViolationReported ==
    (pc = "done" /\ op = "validate" /\ ~Accepted) =>
        /\ ContractViolation
        /\ FieldViolations(kind, data) \subseteq ErrorLocs
        /\ \A R \in MutexRecords(kind) : MutexBothOrNone(R, data) => MutexErrorAt(R.loc)

\* C7 as it holds: the one error raised for a rejected payload holds a
\* sub-error for every field that breaks a rule of its own and nothing
\* else at a field; a record's mutual exclusion is reported exactly when no
\* field of that record is in error and the pair is both given non-empty or
\* both absent or null; of several mismatching artifactRefs the sub-error,
\* placed on artifactRefs, names the first.
C7_FieldViolationsAggregated ==
    (pc = "done" /\ op = "validate") =>
        /\ Accepted \/ ContractViolation
        /\ ContractViolation => outcome.errors # {}
        /\ {e.loc : e \in {x \in outcome.errors : ~IsMutexError(x)}}
              = FieldViolations(kind, data)
        /\ \A R \in MutexRecords(kind) :
              MutexErrorAt(R.loc) <=>
                 /\ MutexBothOrNone(R, data)
                 /\ ~\E loc \in FieldViolations(kind, data) : IsProperPrefix(R.loc, loc)
        /\ \A e \in outcome.errors :
              e.loc = <<"artifacts", "artifactRefs">> =>
                 LET refs == GetIn(data, e.loc).items
                 IN \E i \in 1..Len(refs) :
                       /\ e.ctx = refs[i]
                       /\ ~IsSha256Hex(refs[i])
                       /\ \A j \in 1..(i - 1) : IsSha256Hex(refs[j])

\* A result that breaks three field rules in two records has been rejected
\* with exactly the three sub-errors.
C7_Witness ==
    /\ Validated("result")
    /\ ContractViolation
    /\ ErrorLocs = {<<"stats", "documentsProcessed">>,
                    <<"outputs", "turtleFiles", "0">>, <<"outputs", "turtleFiles", "1">>}

----------------------------------------------------------------------------
(* C8 *)

\* C8: a contract violation raised for a mapping that holds the schema
\* version, under its wire name or its internal name, carries the value
\* observed; raised for anything else, it carries none.
C8_SchemaVersionCarried ==
    (pc = "done" /\ op = "validate" /\ ContractViolation) =>
        outcome.schema_version =
            (IF data.t = "map" /\ SchemaVersionIn(data) # ABSENT
             THEN SchemaVersionIn(data) ELSE NULL)

----------------------------------------------------------------------------
(* C10 *)

PrimitiveFailures ==
    {e \in outcome.errors :
        e.type \in {"missing", "string_type", "bool_type", "int_type", "list_type",
                    "dict_type", "model_type"}}

\* C10 as stated: an error that reports a missing or wrongly typed field
\* holds no mutual-exclusion sub-error, wherever the field lies.
C10_NoMutexWithTypeFailure ==
    (Validated("request") /\ PrimitiveFailures # {}) =>
        \A R \in MutexRecords("request") : ~MutexErrorAt(R.loc)

\* C10 as it holds: a record's mutual exclusion is not reported when a
\* field of that record is in error, and is reported, next to a failure in
\* another record, when the record's own fields are all accepted.
C10_MutexAfterOwnFields ==
    Validated("request") =>
        \A R \in MutexRecords("request") :
            /\ (\E e \in outcome.errors : IsProperPrefix(R.loc, e.loc)) => ~MutexErrorAt(R.loc)
            /\ ( /\ data.t = "map"
                 /\ MutexBothOrNone(R, data)
                 /\ ~\E loc \in FieldViolations("request", data) : IsProperPrefix(R.loc, loc) )
               => MutexErrorAt(R.loc)

\* includeChunks is missing from an input that gives both selectors: only
\* the missing field has been reported.
C10_Witness ==
    /\ Validated("request")
    /\ GetIn(data, <<"input", "includeChunks">>) = ABSENT
    /\ PresentNonEmpty(DocumentIdsIn(data)) /\ PresentNonEmpty(QueryIn(data))
    /\ ErrorLocs = {<<"input", "includeChunks">>}

----------------------------------------------------------------------------
(* C3 *)

\* The digest the payload in hand was prepared around: the last artifact
\* ref of a request, the last content fingerprint of a manifest.
DigestUnderTest ==
    IF kind = "request"
    THEN LET refs == GetIn(data, <<"artifacts", "artifactRefs">>).items
         IN refs[Len(refs)]
    ELSE LET fps == GetIn(data, <<"provenance", "inputFingerprints">>).items
         IN fps[Len(fps)].m["contentFingerprint"]

HasDigest == kind = "request" => GetIn(data, <<"artifacts", "artifactRefs">>).t = "list"

\* C3: a string given as an artifact ref or as a content fingerprint is
\* accepted if and only if it is exactly 64 hexadecimal characters.
C3_DigestExactly64Hex ==
    (pc = "done" /\ op = "validate" /\ HasDigest) =>
        (Accepted <=> IsSha256Hex(DigestUnderTest))

----------------------------------------------------------------------------
(* C4 *)

\* C4: a text that is not valid JSON ends in the malformed-input error,
\* with the parser's message, no sub-error and no schema version, and
\* every contract violation carries at least one sub-error.
C4_MalformedNeverViolation ==
    (pc = "done" /\ op = "validate") =>
        /\ (IsStr(data) /\ ~IsValidJSON(data)) =>
              /\ MalformedInput
              /\ outcome.detail # ""
              /\ outcome.errors = {}
              /\ outcome.schema_version = NULL
        /\ ContractViolation => outcome.errors # {}

----------------------------------------------------------------------------
(* C5 *)

\* C5 as stated: a loader's outcome on an existing file is the outcome of
\* the entry point of its kind on the file's text.
C5_LoaderEqualsEntryPoint ==
    (pc = "done" /\ op = "load" /\ Exists(path)) => outcome = EntryPoint(kind, fs[path])

\* C5 as it holds: on a file whose text the parser rejects, the loader
\* raises the parser's own JSONDecodeError, where the entry point on that
\* text raises the malformed-input contract error with the same parser
\* message; on a file whose text is a document that is not a string, the
\* loader's outcome is the entry point's on the text; on a file whose text
\* is a JSON string, the loader's outcome is the entry point's on that
\* string's content, which is parsed once more.
C5_LoaderOutcome ==
    (pc = "done" /\ op = "load" /\ Exists(path)) =>
        LET text == fs[path]
        IN IF text.syntax # "document"
           THEN /\ outcome.kind = "JSONDecodeError"
                /\ outcome.errors = {}
                /\ EntryPoint(kind, text).message = "Invalid JSON"
                /\ EntryPoint(kind, text).detail = outcome.detail
           ELSE IF IsStr(text.doc)
           THEN outcome = EntryPoint(kind, text.doc)
           ELSE outcome = EntryPoint(kind, text)

\* A result file that breaks the schema has been loaded: the loader raised
\* the contract violation the entry point raises on its text.
C5_Witness ==
    /\ pc = "done" /\ op = "load" /\ kind = "result" /\ Exists(path)
    /\ fs[path] = Text("document", PutIn(BaseResult, <<"stats", "filesWritten">>, IntV(-1)))
    /\ ContractViolation
    /\ ErrorLocs = {<<"stats", "filesWritten">>}
    /\ trace = <<"exists", "open", "read", "parse", "validate">>

----------------------------------------------------------------------------
(* C6 *)

\* C6: a loader called with a path that does not exist raises the
\* not-found error at its first step: the existence check is the only event
\* of the call, the file is not opened or read, nothing is parsed and no
\* entry point is called.
C6_NotFoundFirst ==
    /\ (op = "load" /\ ~Exists(path) /\ pc # "exists") =>
          /\ pc = "done"
          /\ outcome.kind = "FileNotFoundError"
          /\ trace = <<"exists">>
          /\ loaded = NULL
    /\ (op = "load" /\ outcome.kind = "FileNotFoundError") =>
          \A i \in 1..Len(trace) : trace[i] \notin {"open", "read", "parse", "validate"}
    /\ (op = "load" /\ trace # <<>>) => trace[1] = "exists"

\* The manifest loader has been called with a path that does not exist.
C6_Witness ==
    /\ op = "load" /\ pc = "done" /\ kind = "manifest"
    /\ ~Exists(path)
    /\ outcome.kind = "FileNotFoundError"

====
